---- MODULE Spec2Model ----
(***************************************************************************)
(* Model of the landing-page helpers of coteacher-naep                     *)
(* (src/src/landing-helpers.ts): proficiencyToFraction, buildExploreHref   *)
(* and the two revisions of extractLocationLabel that the file holds; of   *)
(* the map helpers of its end-to-end suite (src/e2e/serve.mjs):            *)
(* getStateBBoxFromTopology and getExpectedAlignedCityPoint; and of the    *)
(* worker (src/unnamed/part_003): its fetch handler with the cached load   *)
(* of naep.json, any number of requests interleaving at their awaits.      *)
(*                                                                         *)
(* Numbers.  A proficiency is a rational n/d kept as the record            *)
(* [n |-> n, d |-> d].  The inputs are the dyadic grid k / 2^GridBits,     *)
(* whose members are exact IEEE doubles, and the decimal inputs of the     *)
(* unit tests; on all of them exact rational arithmetic and the doubles    *)
(* of the source select the same fraction.                                 *)
(*                                                                         *)
(* Strings.  A string is a sequence of tokens, each token a run of         *)
(* characters; " " is a run of whitespace.  undefined is the empty tuple   *)
(* and a present value v is the one-element tuple <<v>>.                   *)
(***************************************************************************)
EXTENDS Integers, Sequences, FiniteSets, TLC

VARIABLES pc, proficiency, fraction, geo, called, label,
          topology, stateData, args, decoded, polys, bb, aligned, previous,
          calls,
          hrefArgs, href,
          NAEP_DATA_PROMISE, asset, fetches, parses, requests

\* The variables of the landing-page helpers.
landingVars == <<proficiency, fraction, geo, called, label>>

\* The variables of the map helpers of the end-to-end suite.
mapVars ==
  <<topology, stateData, args, decoded, polys, bb, aligned, previous, calls>>

\* The arguments and the result of buildExploreHref.
hrefVars == <<hrefArgs, href>>

\* The module state of the worker, the naep.json asset, the calls made on the
\* ASSETS binding and on the asset response, and the requests received.
workerVars == <<NAEP_DATA_PROMISE, asset, fetches, parses, requests>>

vars == <<pc, landingVars, mapVars, hrefVars, workerVars>>

\* ------------------------------------------------------------------------
\* Bounds of the model

\* The proficiency grid has 2^GridBits + 1 points.
GridBits == 7

\* Longest localityInfo list that is enumerated.
MaxEntries == 2

\* Longest arc of delta pairs that is enumerated.
MaxArcLen == 3

\* Most calls of getExpectedAlignedCityPoint in one run.
MaxCalls == 2

\* Most requests one worker instance receives.
MaxRequests == 2

\* ------------------------------------------------------------------------
\* Optional values: undefined, or a present value

Undefined == <<>>

Some(v) == <<v>>

ValueOf(o) == o[1]

\* ------------------------------------------------------------------------
\* proficiencyToFraction

Abs(x) == IF x < 0 THEN -x ELSE x

\* Math.round of the non-negative rational n/d: the nearest integer, a half
\* rounded up.
MathRound(n, d) == (2 * n + d) \div (2 * d)

\* Rationals [n, d] with d >= 0; d = 0 is Infinity.
Infinity == [n |-> 1, d |-> 0]

RatLess(x, y) == x.n * y.d < y.n * x.d

RatEq(x, y) == x.n * y.d = y.n * x.d /\ (x.d = 0) = (y.d = 0)

denominators == <<4, 5, 10>>

\* const belowProficient = 1 - proficiency
BelowProficient(p) == [n |-> p.d - p.n, d |-> p.d]

\* The numerator rounded down instead of to the nearest integer.
NumForFloor(below, den) == (below.n * den) \div below.d

\* const num = Math.round(belowProficient * den)
NumFor(below, den) == MathRound(below.n * den, below.d)

\* const error = Math.abs(num / den - belowProficient)
ErrorFor(below, den) ==
  [n |-> Abs(NumFor(below, den) * below.d - below.n * den), d |-> den * below.d]

InitialBest == [bestNum |-> 0, bestDen |-> 10, bestError |-> Infinity]

\* The loop's test, with the strict comparison only.
TakesOverStrict(error, den, best) == RatLess(error, best.bestError)

\* if (error < bestError || (error === bestError && den > bestDen))
TakesOver(error, den, best) ==
  \/ RatLess(error, best.bestError)
  \/ RatEq(error, best.bestError) /\ den > best.bestDen

\* One pass of the loop body for denominators[i].
LoopBody(best, below, den) ==
  IF TakesOver(ErrorFor(below, den), den, best)
  THEN [bestNum |-> NumFor(below, den), bestDen |-> den,
        bestError |-> ErrorFor(below, den)]
  ELSE best

RECURSIVE LoopFrom(_, _, _)
\* for (const den of denominators), from index i on
LoopFrom(i, best, below) ==
  IF i > Len(denominators) THEN best
  ELSE LoopFrom(i + 1, LoopBody(best, below, denominators[i]), below)

\* The clamp without its lower half.
ClampLowMissing(num, den) == IF num >= den THEN den - 1 ELSE num

\* The clamp without its upper half.
ClampHighMissing(num, den) == IF num <= 0 THEN 1 ELSE num

\* if (bestNum <= 0) bestNum = 1; if (bestNum >= bestDen) bestNum = bestDen - 1
Clamp(num, den) ==
  LET low == IF num <= 0 THEN 1 ELSE num
  IN  IF low >= den THEN den - 1 ELSE low

proficiencyToFraction(p) ==
  LET best == LoopFrom(1, InitialBest, BelowProficient(p))
  IN  [numerator |-> Clamp(best.bestNum, best.bestDen),
       denominator |-> best.bestDen]

\* ------------------------------------------------------------------------
\* Inputs of proficiencyToFraction

Grid == 2 ^ GridBits

\* The proficiencies the unit tests call it with, in thousandths.
TestedThousandths == {615, 500, 750, 200, 990, 10, 0, 1000}

Proficiencies ==
  {[n |-> k, d |-> Grid] : k \in 0 .. Grid}
    \cup {[n |-> t, d |-> 1000] : t \in TestedThousandths}

NoFraction == [numerator |-> 0, denominator |-> 0]

NoGeo == [city |-> Undefined, locality |-> Undefined,
          principalSubdivision |-> Undefined, localityInfo |-> Undefined]

NoLabel == [kind |-> "none", value |-> <<>>]

NoTopology == [transform |-> Undefined, arcs |-> <<>>, geometries |-> <<>>]

NoData == [cities |-> <<>>, districts |-> Undefined, schools |-> Undefined]

NoArgs == [fips |-> "", cityName |-> <<>>]

\* No landing-page helper has been given anything and none has run.
NoLanding ==
  /\ proficiency = [n |-> 0, d |-> 1]
  /\ fraction = NoFraction
  /\ geo = NoGeo
  /\ called = "none"
  /\ label = NoLabel

NoHrefArgs ==
  [state |-> Undefined, lat |-> Undefined, lon |-> Undefined,
   city |-> Undefined]

\* buildExploreHref has not been called.
NoHref ==
  /\ hrefArgs = NoHrefArgs
  /\ href = <<>>

NoAsset == [ok |-> FALSE, json |-> FALSE, national |-> Undefined,
            states |-> Undefined]

\* No worker instance runs.
NoWorker ==
  /\ NAEP_DATA_PROMISE = [state |-> "null"]
  /\ asset = NoAsset
  /\ fetches = 0
  /\ parses = 0
  /\ requests = <<>>

\* No map helper has been given anything and none has run.
NoMap ==
  /\ topology = NoTopology
  /\ stateData = NoData
  /\ args = NoArgs
  /\ decoded = <<>>
  /\ polys = <<>>
  /\ bb = [kind |-> "none"]
  /\ aligned = [kind |-> "none"]
  /\ previous = [kind |-> "none"]
  /\ calls = 0

InitFraction ==
  /\ pc = "fraction"
  /\ proficiency \in Proficiencies
  /\ fraction = NoFraction
  /\ geo = NoGeo
  /\ called = "none"
  /\ label = NoLabel
  /\ NoMap
  /\ NoHref
  /\ NoWorker

CallProficiencyToFraction ==
  /\ pc = "fraction"
  /\ fraction' = proficiencyToFraction(proficiency)
  /\ pc' = "fractionDone"
  /\ UNCHANGED <<proficiency, geo, called, label>>
  /\ UNCHANGED mapVars
  /\ UNCHANGED <<hrefVars, workerVars>>

NextFraction == CallProficiencyToFraction

SpecFraction == InitFraction /\ [][NextFraction]_vars

\* ------------------------------------------------------------------------
\* Strings of the reverse-geocode payload

\* A token that is a run of whitespace.
Whitespace == {" "}

\* Tokens that start with a character outside [A-Za-z0-9_].
NonWordTokens == Whitespace \cup {"-", "/"}

RECURSIVE TrimStart(_)
TrimStart(s) ==
  IF s # <<>> /\ Head(s) \in Whitespace THEN TrimStart(Tail(s)) ELSE s

RECURSIVE TrimEnd(_)
TrimEnd(s) ==
  IF s # <<>> /\ s[Len(s)] \in Whitespace
  THEN TrimEnd(SubSeq(s, 1, Len(s) - 1))
  ELSE s

\* String.prototype.trim
Trim(s) == TrimEnd(TrimStart(s))

\* The i flag: the lower-case form of a token.
ToLowerCase(tok) ==
  CASE tok = "Township" -> "township"
    [] tok = "County"   -> "county"
    [] tok = "District" -> "district"
    [] tok = "Parish"   -> "parish"
    [] tok = "PARISH"   -> "parish"
    [] tok = "Canal Winchester" -> "canal winchester"
    [] tok = "CANAL WINCHESTER" -> "canal winchester"
    [] tok = "Columbus" -> "columbus"
    [] tok = "Dublin"   -> "dublin"
    [] OTHER            -> tok

AdminKeywords ==
  {"township", "county", "borough", "parish", "district", "division",
   "precinct", "unincorporated"}

\* The pattern without its anchor: a keyword anywhere in the string.
ADMIN_PATTERN_unanchored(s) ==
  \E i \in 1 .. Len(s) : ToLowerCase(s[i]) \in AdminKeywords

\* ADMIN_PATTERN.test(s): a keyword at the very start, any case, followed by
\* a word boundary.
ADMIN_PATTERN_test(s) ==
  /\ s # <<>>
  /\ ToLowerCase(s[1]) \in AdminKeywords
  /\ Len(s) = 1 \/ s[2] \in NonWordTokens

\* A string in a condition: the empty string is falsy.
Truthy(s) == s # <<>>

\* What a step of the function does: Undefined (falls through to the next
\* step), Some(s) (returns s) or TypeError (throws).
TypeError == <<"TypeError", "TypeError">>

\* o.f evaluated without the optional chain: undefined has no properties.
MemberOrThrow(o, f) == IF o = Undefined THEN TypeError ELSE ValueOf(o)[f]

\* o?.f
OptionalMember(o, f) == IF o = Undefined THEN Undefined ELSE ValueOf(o)[f]

\* o?.trim()
OptionalTrim(o) == IF o = Undefined THEN Undefined ELSE Some(Trim(ValueOf(o)))

\* (e.order ?? 0), (e.adminLevel ?? 0)
KeyOf(e, f) == IF e[f] = Undefined THEN 0 ELSE ValueOf(e[f])

RECURSIVE InsertDescending(_, _, _)
\* e put behind every element whose key is at least its own.
InsertDescending(e, sorted, f) ==
  IF sorted = <<>> THEN <<e>>
  ELSE IF KeyOf(Head(sorted), f) >= KeyOf(e, f)
       THEN <<Head(sorted)>> \o InsertDescending(e, Tail(sorted), f)
       ELSE <<e>> \o sorted

\* The sort left out: the list in its original order.
SortNone(list, f) == list

RECURSIVE SortDescendingFrom(_, _, _, _)
SortDescendingFrom(i, list, sorted, f) ==
  IF i > Len(list) THEN sorted
  ELSE SortDescendingFrom(i + 1, list, InsertDescending(list[i], sorted, f), f)

\* .sort((a, b) => (b[f] ?? 0) - (a[f] ?? 0)): descending and stable.
SortDescending(list, f) == SortDescendingFrom(1, list, <<>>, f)

\* The filter with its threshold test left out.
QualifiesAnyRank(e, f, least) ==
  /\ e[f] # Undefined
  /\ Truthy(e.name)
  /\ ~ADMIN_PATTERN_test(Trim(e.name))

\* e[f] != null && e[f] >= least && e.name && !ADMIN_PATTERN.test(e.name.trim())
Qualifies(e, f, least) ==
  /\ e[f] # Undefined
  /\ ValueOf(e[f]) >= least
  /\ Truthy(e.name)
  /\ ~ADMIN_PATTERN_test(Trim(e.name))

\* list.filter(...).sort(...)
Candidates(list, f, least) ==
  SortDescending(SelectSeq(list, LAMBDA e : Qualifies(e, f, least)), f)

\* if (list) { ...; if (candidates.length > 0) return candidates[0].name }
ListStep(list, f, least) ==
  IF list = TypeError THEN TypeError
  ELSE IF list = Undefined THEN Undefined
  ELSE IF Candidates(ValueOf(list), f, least) = <<>> THEN Undefined
  ELSE Some(Candidates(ValueOf(list), f, least)[1].name)

RECURSIVE FirstReturn(_)
\* The steps in order: the first that does not fall through decides; when
\* all fall through, return "".
FirstReturn(steps) ==
  IF steps = <<>> THEN Some(<<>>)
  ELSE IF Head(steps) = Undefined THEN FirstReturn(Tail(steps))
  ELSE Head(steps)

Outcome(r) ==
  IF r = TypeError THEN [kind |-> "throw", value |-> <<>>]
  ELSE [kind |-> "return", value |-> ValueOf(r)]

\* ------------------------------------------------------------------------
\* extractLocationLabel, the two revisions held by landing-helpers.ts

\* A free-text field used unfiltered: returned trimmed when that is non-empty.
\*   if (geo.city && geo.city.trim()) return geo.city.trim()
\*   if (geo.principalSubdivision?.trim()) return geo.principalSubdivision.trim()
FieldStep(o) ==
  IF OptionalTrim(o) # Undefined /\ Truthy(ValueOf(OptionalTrim(o)))
  THEN Some(Trim(ValueOf(o)))
  ELSE Undefined

\* The filtered step with its ADMIN_PATTERN test left out.
FilteredFieldStep_unfiltered(o) == FieldStep(o)

\* A free-text field used only when it is no administrative name.
\*   if (geo.locality?.trim() && !ADMIN_PATTERN.test(geo.locality.trim()))
\*     return geo.locality.trim()
FilteredFieldStep(o) ==
  IF /\ OptionalTrim(o) # Undefined
     /\ Truthy(ValueOf(OptionalTrim(o)))
     /\ ~ADMIN_PATTERN_test(Trim(ValueOf(o)))
  THEN Some(Trim(ValueOf(o)))
  ELSE Undefined

\* The locality-first revision with its first two steps exchanged.
extractLocationLabel_52_cityFirst(g) ==
  FirstReturn(<<
    FilteredFieldStep(g.city),
    FilteredFieldStep(g.locality),
    ListStep(OptionalMember(g.localityInfo, "administrative"), "adminLevel", 8),
    FieldStep(g.principalSubdivision) >>)

\* extractLocationLabel of lines 52-85 (again at 255-288): locality, city,
\* administrative entries with adminLevel >= 8, principalSubdivision, "".
extractLocationLabel_52(g) ==
  FirstReturn(<<
    FilteredFieldStep(g.locality),
    FilteredFieldStep(g.city),
    ListStep(OptionalMember(g.localityInfo, "administrative"), "adminLevel", 8),
    FieldStep(g.principalSubdivision) >>)

\* The informative-first revision with locality consulted before city.
extractLocationLabel_169_localityFirst(g) ==
  FirstReturn(<<
    ListStep(OptionalMember(g.localityInfo, "informative"), "order", 4),
    FilteredFieldStep(g.locality),
    FieldStep(g.city),
    FieldStep(g.principalSubdivision) >>)

\* extractLocationLabel of lines 169-202: informative entries with
\* order >= 4, city, locality, principalSubdivision, "".
extractLocationLabel_169(g) ==
  FirstReturn(<<
    ListStep(OptionalMember(g.localityInfo, "informative"), "order", 4),
    FieldStep(g.city),
    FilteredFieldStep(g.locality),
    FieldStep(g.principalSubdivision) >>)

\* ------------------------------------------------------------------------
\* Inputs of extractLocationLabel

CanalWinchester == <<"Canal Winchester">>

PaddedGroveport == <<" ", "Groveport", " ">>

PaddedColumbus == <<" ", "Columbus", " ">>

PaddedSpringfield == <<" ", "Springfield", " ">>

PaddedOhio == <<" ", "Ohio", " ">>

Blank == <<" ">>

TownshipOfMadison == <<"Township", " ", "of Madison">>

PaddedTownshipOfViolet == <<" ", "Township", " ", "of Violet">>

CountyOfLosAngeles == <<"County", " ", "of Los Angeles">>

DistrictOfColumbia == <<"District", " ", "of Columbia">>

\* A name that goes on after the keyword without a break.
Parishville == <<"Parish", "ville">>

ParishOfOrleans == <<"PARISH", " ", "of Orleans">>

FranklinCounty == <<"Franklin", " ", "County">>

PostalCode == <<"43110">>

FipsCode == <<"39", "-", "045", "-", "80206">>

TimeZone == <<"America", "/", "New_York">>

Entry(name, order, adminLevel) ==
  [name |-> name, order |-> order, adminLevel |-> adminLevel]

CityValues ==
  {Undefined, Some(<<>>), Some(Blank), Some(PaddedColumbus),
   Some(TownshipOfMadison)}

LocalityValues ==
  {Undefined, Some(<<>>), Some(PaddedSpringfield), Some(CountyOfLosAngeles),
   Some(PaddedTownshipOfViolet), Some(Parishville), Some(ParishOfOrleans),
   Some(FranklinCounty)}

PrincipalSubdivisionValues ==
  {Undefined, Some(<<>>), Some(PaddedOhio), Some(DistrictOfColumbia)}

InformativeEntries ==
  {Entry(CanalWinchester, Some(4), Undefined),
   Entry(PaddedGroveport, Some(5), Undefined),
   Entry(PostalCode, Some(5), Undefined),
   Entry(CanalWinchester, Some(3), Undefined),
   Entry(CanalWinchester, Undefined, Undefined),
   Entry(<<>>, Some(6), Undefined),
   Entry(TownshipOfMadison, Some(6), Undefined),
   Entry(PaddedTownshipOfViolet, Some(7), Undefined)}

AdministrativeEntries ==
  {Entry(CanalWinchester, Some(12), Some(8)),
   Entry(PaddedGroveport, Undefined, Some(9)),
   Entry(<<"Ohio">>, Some(6), Some(4)),
   Entry(CanalWinchester, Some(12), Undefined),
   Entry(<<>>, Undefined, Some(10)),
   Entry(TownshipOfMadison, Some(8), Some(10)),
   Entry(PaddedTownshipOfViolet, Some(10), Some(11))}

\* The lists over S of at most MaxEntries entries.
ListsOf(S) == UNION {[1 .. n -> S] : n \in 0 .. MaxEntries}

\* localityInfo: absent, or present with each list absent or present; the
\* enumerated payloads populate one list at a time.
LocalityInfoValues ==
  {Undefined}
    \cup {Some([administrative |-> Undefined, informative |-> i]) :
            i \in {Undefined} \cup {Some(l) : l \in ListsOf(InformativeEntries)}}
    \cup {Some([administrative |-> a, informative |-> Undefined]) :
            a \in {Some(l) : l \in ListsOf(AdministrativeEntries)}}

\* The BigDataCloud response for Canal Winchester, OH recorded in the tests.
canalWinchesterFixture ==
  [city |-> Some(TownshipOfMadison),
   locality |-> Some(CanalWinchester),
   principalSubdivision |-> Some(<<"Ohio">>),
   localityInfo |-> Some(
     [administrative |-> Some(<<
        Entry(<<"United States of America (the)">>, Some(2), Some(2)),
        Entry(<<"Ohio">>, Some(6), Some(4)),
        Entry(<<"Fairfield", " ", "County">>, Some(7), Some(6)),
        Entry(TownshipOfMadison, Some(8), Some(7)),
        Entry(<<"Township", " ", "of Violet">>, Some(10), Some(7)),
        Entry(CanalWinchester, Some(12), Some(8)) >>),
      informative |-> Some(<<
        Entry(<<"North America">>, Some(1), Undefined),
        Entry(<<"contiguous United States">>, Some(3), Undefined),
        Entry(<<"Central Lowlands">>, Some(4), Undefined),
        Entry(TimeZone, Some(5), Undefined),
        Entry(PostalCode, Some(9), Undefined),
        Entry(FipsCode, Some(11), Undefined) >>)])]

GeoResponses ==
  [city : CityValues, locality : LocalityValues,
   principalSubdivision : PrincipalSubdivisionValues,
   localityInfo : LocalityInfoValues]
    \cup {canalWinchesterFixture}

InitLabel ==
  /\ pc = "label"
  /\ geo \in GeoResponses
  /\ called = "none"
  /\ label = NoLabel
  /\ NoMap
  /\ NoHref
  /\ NoWorker
  /\ proficiency = [n |-> 0, d |-> 1]
  /\ fraction = NoFraction

\* A call of the revision of lines 52-85.
CallExtractLocationLabel_52 ==
  /\ pc = "label"
  /\ label' = Outcome(extractLocationLabel_52(geo))
  /\ called' = "extractLocationLabel_52"
  /\ pc' = "labelDone"
  /\ UNCHANGED <<proficiency, fraction, geo>>
  /\ UNCHANGED mapVars
  /\ UNCHANGED <<hrefVars, workerVars>>

\* A call of the revision of lines 169-202.
CallExtractLocationLabel_169 ==
  /\ pc = "label"
  /\ label' = Outcome(extractLocationLabel_169(geo))
  /\ called' = "extractLocationLabel_169"
  /\ pc' = "labelDone"
  /\ UNCHANGED <<proficiency, fraction, geo>>
  /\ UNCHANGED mapVars
  /\ UNCHANGED <<hrefVars, workerVars>>

NextLabel == CallExtractLocationLabel_52 \/ CallExtractLocationLabel_169

SpecLabel == InitLabel /\ [][NextLabel]_vars

\* ------------------------------------------------------------------------
\* Numbers of the map helpers

\* A number is a rational [n, d] in lowest terms with d > 0, or one of
\* [1, 0] = Infinity, [-1, 0] = -Infinity and [0, 0] = NaN.
MinusInfinity == [n |-> -1, d |-> 0]

NaN == [n |-> 0, d |-> 0]

Num(i) == [n |-> i, d |-> 1]

RECURSIVE GCD(_, _)
GCD(a, b) == IF b = 0 THEN a ELSE GCD(b, a % b)

Sign(i) == IF i > 0 THEN 1 ELSE IF i < 0 THEN -1 ELSE 0

Norm(n, d) ==
  IF d = 0 THEN [n |-> Sign(n), d |-> 0]
  ELSE LET g == GCD(Abs(n), Abs(d))
       IN  [n |-> (Sign(d) * n) \div g, d |-> Abs(d) \div g]

IsNaN(x) == x.n = 0 /\ x.d = 0

\* Number.isFinite
IsFinite(x) == x.d # 0

\* x + y: opposite infinities, and anything with NaN, add up to NaN.
Add(x, y) ==
  IF x.d = 0 /\ y.d = 0
  THEN IF x = y THEN x ELSE NaN
  ELSE Norm(x.n * y.d + y.n * x.d, x.d * y.d)

Neg(x) == [n |-> -x.n, d |-> x.d]

\* x - y
Sub(x, y) == Add(x, Neg(y))

\* x * y: zero times an infinity is NaN.
Mul(x, y) == Norm(x.n * y.n, x.d * y.d)

\* 1 / y: the zero of a difference is +0, whose reciprocal is Infinity.
Inv(y) ==
  IF y.n < 0 THEN [n |-> -y.d, d |-> -y.n] ELSE [n |-> y.d, d |-> y.n]

\* x / y
Div(x, y) == Mul(x, Inv(y))

\* x < y: false when either is NaN.
Less(x, y) ==
  /\ ~IsNaN(x)
  /\ ~IsNaN(y)
  /\ IF x.d = 0 /\ y.d = 0 THEN x.n < y.n ELSE RatLess(x, y)

\* The greater of two numbers.
MathMax(x, y) ==
  IF IsNaN(x) \/ IsNaN(y) THEN NaN ELSE IF Less(x, y) THEN y ELSE x

\* Math.min of two numbers
MathMin(x, y) ==
  IF IsNaN(x) \/ IsNaN(y) THEN NaN ELSE IF Less(y, x) THEN y ELSE x

\* ------------------------------------------------------------------------
\* getStateBBoxFromTopology

\* An element of a JavaScript array, which counts from 0.
At(array, i) == array[i + 1]

\* ~i
BitNot(i) == -i - 1

\* array.slice().reverse()
Reverse(array) == [j \in 1 .. Len(array) |-> array[Len(array) + 1 - j]]

\* topology.transform || { scale: [1, 1], translate: [0, 0] }
IdentityTransform == [scale |-> <<1, 1>>, translate |-> <<0, 0>>]

TransformOf(topo) ==
  IF topo.transform = Undefined THEN IdentityTransform
  ELSE ValueOf(topo.transform)

\* p[i] as an addend: a missing element is undefined, which adds as NaN.
Component(p, i) == IF i < Len(p) THEN Num(At(p, i)) ELSE NaN

\* The point emitted for the running sums x and y.
Emit(x, y, transform) ==
  << Add(Mul(x, Num(At(transform.scale, 0))), Num(At(transform.translate, 0))),
     Add(Mul(y, Num(At(transform.scale, 1))), Num(At(transform.translate, 1))) >>

\* arc.map over the elements from the k-th on, with the running sums so far.
RECURSIVE DecodeFrom(_, _, _, _, _)
DecodeFrom(arc, k, x, y, transform) ==
  IF k > Len(arc) THEN <<>>
  ELSE LET nx == Add(x, Component(arc[k], 0))
           ny == Add(y, Component(arc[k], 1))
       IN  <<Emit(nx, ny, transform)>>
             \o DecodeFrom(arc, k + 1, nx, ny, transform)

\* The decoding with the running sums started at 1.
DecodeArcFromOne(arc, transform) ==
  DecodeFrom(arc, 1, Num(1), Num(1), transform)

\* let x = 0, y = 0 for every arc
DecodeArc(arc, transform) == DecodeFrom(arc, 1, Num(0), Num(0), transform)

\* const decoded = topology.arcs.map(...)
Decode(topo) ==
  [i \in 1 .. Len(topo.arcs) |-> DecodeArc(topo.arcs[i], TransformOf(topo))]

\* The arc an index of a ring stands for: reversed for a complemented index.
ArcOf(dec, i) == IF i >= 0 THEN At(dec, i) ELSE Reverse(At(dec, BitNot(i)))

\* The points an arc adds to the coordinates collected so far: its first
\* point is left out unless nothing was collected yet.
Pushed(coords, arc) ==
  IF coords = <<>> \/ arc = <<>> THEN arc ELSE Tail(arc)

RECURSIVE RingFrom(_, _, _, _)
RingFrom(dec, idx, k, coords) ==
  IF k > Len(idx) THEN coords
  ELSE RingFrom(dec, idx, k + 1, coords \o Pushed(coords, ArcOf(dec, idx[k])))

ring(dec, idx) == RingFrom(dec, idx, 1, <<>>)

Rings(dec, a) == [r \in 1 .. Len(a) |-> ring(dec, a[r])]

Polys(dec, geom) ==
  IF geom.type = "MultiPolygon"
  THEN [q \in 1 .. Len(geom.arcs) |-> Rings(dec, geom.arcs[q])]
  ELSE <<Rings(dec, geom.arcs)>>

RECURSIVE Flatten(_)
Flatten(lists) ==
  IF lists = <<>> THEN <<>> ELSE Head(lists) \o Flatten(Tail(lists))

\* The points the three nested loops visit, in their order.
Visited(ps) == Flatten(Flatten(ps))

EmptyBox ==
  [x0 |-> Infinity, y0 |-> Infinity, x1 |-> MinusInfinity, y1 |-> MinusInfinity]

\* The body of the loops, with the upper bounds never raised.
GrowLowOnly(box, pt) ==
  [x0 |-> IF Less(pt[1], box.x0) THEN pt[1] ELSE box.x0,
   y0 |-> IF Less(pt[2], box.y0) THEN pt[2] ELSE box.y0,
   x1 |-> box.x1,
   y1 |-> box.y1]

Grow(box, pt) ==
  [x0 |-> IF Less(pt[1], box.x0) THEN pt[1] ELSE box.x0,
   y0 |-> IF Less(pt[2], box.y0) THEN pt[2] ELSE box.y0,
   x1 |-> IF Less(box.x1, pt[1]) THEN pt[1] ELSE box.x1,
   y1 |-> IF Less(box.y1, pt[2]) THEN pt[2] ELSE box.y1]

RECURSIVE BoxFrom(_, _, _)
BoxFrom(pts, k, box) ==
  IF k > Len(pts) THEN box ELSE BoxFrom(pts, k + 1, Grow(box, pts[k]))

\* geometries.find((g) => g.id === fips)
RECURSIVE Find(_, _)
Find(geometries, fips) ==
  IF geometries = <<>> THEN Undefined
  ELSE IF Head(geometries).id = fips THEN Some(Head(geometries))
  ELSE Find(Tail(geometries), fips)

Thrown(message) == [kind |-> "error", message |-> message]

\* The lookup that answers with the first geometry when none carries the id.
FindOrFirst(geometries, fips) ==
  IF Find(geometries, fips) = Undefined /\ geometries # <<>>
  THEN Some(Head(geometries))
  ELSE Find(geometries, fips)

LookUp(geometries, fips) == Find(geometries, fips)

\* The rings of the geometry asked for, polygon by polygon; none are built
\* when the lookup throws.
PolysOf(topo, fips) ==
  IF LookUp(topo.geometries, fips) = Undefined THEN <<>>
  ELSE Polys(Decode(topo), ValueOf(LookUp(topo.geometries, fips)))

getStateBBoxFromTopology(topo, fips) ==
  LET geom == LookUp(topo.geometries, fips)
  IN  IF geom = Undefined THEN Thrown("Missing geometry for FIPS")
      ELSE LET box == BoxFrom(Visited(Polys(Decode(topo), ValueOf(geom))),
                              1, EmptyBox)
           IN  [kind |-> "bbox",
                x0 |-> box.x0, y0 |-> box.y0, x1 |-> box.x1, y1 |-> box.y1,
                w |-> Sub(box.x1, box.x0), h |-> Sub(box.y1, box.y0)]

\* ------------------------------------------------------------------------
\* Topologies given to getStateBBoxFromTopology

\* The elements of an arc: two delta pairs, and an element that lacks its
\* second number.
Deltas == {<<1, 2>>, <<-3, 1>>, <<2>>}

ArcsUpTo(len) == UNION {[1 .. n -> Deltas] : n \in 0 .. len}

\* The second arc: empty, or three sides of a square.
SecondArcs == {<<>>, <<<<0, 0>>, <<4, 0>>, <<0, 4>>>>}

Transforms ==
  { Undefined,
    Some([scale |-> <<2, 3>>, translate |-> <<1, -1>>]),
    Some([scale |-> <<-1, -2>>, translate |-> <<0, 5>>]) }

Geometry(id, type, arcs) == [id |-> id, type |-> type, arcs |-> arcs]

\* The arcs of the geometry that is looked up: no ring, a ring of no arc,
\* rings of one and of two arcs, some of them reversed, and two rings; as
\* one polygon or as several.
Shapes ==
  << [type |-> "Polygon", arcs |-> <<>>],
    [type |-> "Polygon", arcs |-> <<<<>>>>],
    [type |-> "Polygon", arcs |-> <<<<0>>>>],
    [type |-> "Polygon", arcs |-> <<<<BitNot(0)>>>>],
    [type |-> "Polygon", arcs |-> <<<<0, 1>>>>],
    [type |-> "Polygon", arcs |-> <<<<0, BitNot(1)>>>>],
    [type |-> "Polygon", arcs |-> <<<<0>>, <<1>>>>],
    [type |-> "MultiPolygon", arcs |-> <<>>],
    [type |-> "MultiPolygon", arcs |-> <<<<<<0>>>>, <<<<1>>>>>>],
    [type |-> "MultiPolygon", arcs |-> <<<<<<0>>, <<BitNot(1)>>>>>>] >>

\* A topology of two arcs and two geometries, the first of the k-th shape.
Topology(t, a, b, k) ==
  [transform |-> t,
   arcs |-> <<a, b>>,
   geometries |-> << Geometry("39", Shapes[k].type, Shapes[k].arcs),
                     Geometry("11", "Polygon", <<<<1>>>>) >>]

\* The FIPS codes asked for; no geometry carries the last.
FipsCodes == {"39", "11", "99"}

InitBBox ==
  /\ pc = "bbox"
  /\ \E t \in Transforms, a \in ArcsUpTo(MaxArcLen), b \in SecondArcs,
        k \in 1 .. Len(Shapes) :
       topology = Topology(t, a, b, k)
  /\ stateData = NoData
  /\ args = NoArgs
  /\ decoded = <<>>
  /\ polys = <<>>
  /\ bb = [kind |-> "none"]
  /\ aligned = [kind |-> "none"]
  /\ previous = [kind |-> "none"]
  /\ calls = 0
  /\ NoLanding
  /\ NoHref
  /\ NoWorker

CallGetStateBBoxFromTopology ==
  /\ pc = "bbox"
  /\ \E fips \in FipsCodes :
       /\ args' = [fips |-> fips, cityName |-> <<>>]
       /\ bb' = getStateBBoxFromTopology(topology, fips)
       /\ polys' = PolysOf(topology, fips)
  /\ decoded' = Decode(topology)
  /\ calls' = calls + 1
  /\ pc' = "bboxDone"
  /\ UNCHANGED <<topology, stateData, aligned, previous>>
  /\ UNCHANGED landingVars
  /\ UNCHANGED <<hrefVars, workerVars>>

NextBBox == CallGetStateBBoxFromTopology

SpecBBox == InitBBox /\ [][NextBBox]_vars

\* ------------------------------------------------------------------------
\* getExpectedAlignedCityPoint

\* string.toLowerCase()
ToLowerCaseString(str) == [i \in 1 .. Len(str) |-> ToLowerCase(str[i])]

\* cities.find((c) => c.name.toLowerCase() === cityName.toLowerCase())
RECURSIVE FindCity(_, _)
FindCity(cities, cityName) ==
  IF cities = <<>> THEN Undefined
  ELSE IF ToLowerCaseString(Head(cities).name) = ToLowerCaseString(cityName)
  THEN Some(Head(cities))
  ELSE FindCity(Tail(cities), cityName)

\* list || []
OrEmpty(list) == IF list = Undefined THEN <<>> ELSE ValueOf(list)

IsFinitePoint(p) == IsFinite(p.x) /\ IsFinite(p.y)

\* The points of the three lists whose coordinates are both finite.
AllPts(data) ==
  SelectSeq(data.cities \o OrEmpty(data.districts) \o OrEmpty(data.schools),
            IsFinitePoint)

EmptyCloudBox ==
  [dx0 |-> Infinity, dy0 |-> Infinity,
   dx1 |-> MinusInfinity, dy1 |-> MinusInfinity]

CloudGrow(box, p) ==
  [dx0 |-> IF Less(p.x, box.dx0) THEN p.x ELSE box.dx0,
   dy0 |-> IF Less(p.y, box.dy0) THEN p.y ELSE box.dy0,
   dx1 |-> IF Less(box.dx1, p.x) THEN p.x ELSE box.dx1,
   dy1 |-> IF Less(box.dy1, p.y) THEN p.y ELSE box.dy1]

RECURSIVE CloudBoxFrom(_, _, _)
CloudBoxFrom(pts, k, box) ==
  IF k > Len(pts) THEN box ELSE CloudBoxFrom(pts, k + 1, CloudGrow(box, pts[k]))

\* const pad = 0.04
pad == [n |-> 1, d |-> 25]

\* An extent less a fixed margin of 4 on either side.
AvailFixedMargin(extent) == Sub(extent, Num(8))

\* bb.w * (1 - 2 * pad), bb.h * (1 - 2 * pad)
Avail(extent) == Mul(extent, Sub(Num(1), Mul(Num(2), pad)))

\* Math.min(availW / dw, availH / dh)
AlignScale(availW, dw, availH, dh) == MathMin(Div(availW, dw), Div(availH, dh))

\* The rest of the function once the city, the cloud's box and the state's
\* box are known.  The result carries, next to x and y, the locals they
\* were computed from.
Place(city, box, bbx) ==
  LET dw == Sub(box.dx1, box.dx0)
      dh == Sub(box.dy1, box.dy0)
      availW == Avail(bbx.w)
      availH == Avail(bbx.h)
      alignScale == AlignScale(availW, dw, availH, dh)
      scaledW == Mul(dw, alignScale)
      scaledH == Mul(dh, alignScale)
      ox == Add(Add(bbx.x0, Mul(bbx.w, pad)),
                Div(Sub(availW, scaledW), Num(2)))
      oy == Add(Add(bbx.y0, Mul(bbx.h, pad)),
                Div(Sub(availH, scaledH), Num(2)))
  IN  [kind |-> "point",
       x |-> Add(ox, Mul(Sub(city.x, box.dx0), alignScale)),
       y |-> Add(oy, Mul(Sub(city.y, box.dy0), alignScale)),
       dx0 |-> box.dx0, dy0 |-> box.dy0, dw |-> dw, dh |-> dh,
       availW |-> availW, availH |-> availH, alignScale |-> alignScale,
       ox |-> ox, oy |-> oy]

\* The call of getStateBBoxFromTopology is reached: the city was found and
\* the cloud is not empty.
ReachesBBox(data, cityName) ==
  FindCity(data.cities, cityName) # Undefined /\ AllPts(data) # <<>>

getExpectedAlignedCityPoint(data, topo, fips, cityName) ==
  LET city == FindCity(data.cities, cityName)
      allPts == AllPts(data)
      bbx == getStateBBoxFromTopology(topo, fips)
  IN  IF city = Undefined THEN Thrown("Missing city")
      ELSE IF allPts = <<>> THEN Thrown("No points")
      ELSE IF bbx.kind = "error" THEN bbx
      ELSE Place(ValueOf(city), CloudBoxFrom(allPts, 1, EmptyCloudBox), bbx)

\* ------------------------------------------------------------------------
\* Files given to getExpectedAlignedCityPoint

\* The arcs of the states: boxes of 100 by 50, of 200 by 100 and of 20 by
\* 80, and a vertical segment, all drawn from the origin.
StateArcs ==
  << <<<<0, 0>>, <<100, 0>>, <<0, 50>>, <<-100, 0>>>>,
     <<<<0, 0>>, <<200, 0>>, <<0, 100>>>>,
     <<<<0, 0>>, <<20, 0>>, <<0, 80>>>>,
     <<<<0, 0>>, <<0, 50>>>> >>

\* public/us-states.json: four states with a box, and one of no ring.
StatesTopology(t) ==
  [transform |-> t,
   arcs |-> StateArcs,
   geometries |-> << Geometry("39", "Polygon", <<<<0>>>>),
                     Geometry("40", "Polygon", <<<<1>>>>),
                     Geometry("42", "MultiPolygon", <<<<<<2>>>>>>),
                     Geometry("15", "Polygon", <<<<3>>>>),
                     Geometry("11", "Polygon", <<>>) >>]

StatesTransforms ==
  {Undefined, Some([scale |-> <<1, 1>>, translate |-> <<10, 20>>])}

StatesFipsCodes == {"39", "40", "42", "15", "11", "99"}

Pt(name, x, y) == [name |-> name, x |-> x, y |-> y]

Columbus == <<"Columbus">>

\* The cities of the file: Canal Winchester, alone or followed by Columbus;
\* one entry of Canal Winchester has no finite x.
CitiesValues ==
  LET first == { Pt(CanalWinchester, Num(5), Num(5)),
                 Pt(CanalWinchester, Num(0), Num(0)),
                 Pt(CanalWinchester, Num(10), Num(2)),
                 Pt(CanalWinchester, NaN, Num(5)) }
      second == { Pt(Columbus, Num(0), Num(0)),
                  Pt(Columbus, Num(10), Num(10)) }
  IN  {<<c>> : c \in first} \cup {<<c, d>> : c \in first, d \in second}

DistrictsValues ==
  { Undefined,
    Some(<<Pt(<<"Canal Winchester Local">>, Num(0), Num(10))>>),
    Some(<<Pt(<<"Columbus City">>, Num(10), Num(10))>>) }

SchoolsValues ==
  { Undefined,
    Some(<<Pt(<<"Indian Trail Elementary">>, Num(10), Num(0))>>),
    Some(<<Pt(<<"Winchester Trail Elementary">>, Infinity, Num(3))>>) }

StateDataValues ==
  [cities : CitiesValues, districts : DistrictsValues,
   schools : SchoolsValues]

\* The names asked for; no city of the file is called Dublin.
CityNames == {<<"CANAL WINCHESTER">>, Columbus, <<"Dublin">>}

InitAlign ==
  /\ pc = "align"
  /\ \E t \in StatesTransforms : topology = StatesTopology(t)
  /\ stateData \in StateDataValues
  /\ args = NoArgs
  /\ decoded = <<>>
  /\ polys = <<>>
  /\ bb = [kind |-> "none"]
  /\ aligned = [kind |-> "none"]
  /\ previous = [kind |-> "none"]
  /\ calls = 0
  /\ NoLanding
  /\ NoHref
  /\ NoWorker

\* One call; what the call before it was given and returned is kept.
CallGetExpectedAlignedCityPoint ==
  /\ pc \in {"align", "alignDone"}
  /\ calls < MaxCalls
  /\ \E fips \in StatesFipsCodes, cityName \in CityNames :
       /\ args' = [fips |-> fips, cityName |-> cityName]
       /\ aligned' =
            getExpectedAlignedCityPoint(stateData, topology, fips, cityName)
       /\ bb' = IF ReachesBBox(stateData, cityName)
                THEN getStateBBoxFromTopology(topology, fips)
                ELSE [kind |-> "none"]
       /\ decoded' = IF ReachesBBox(stateData, cityName)
                     THEN Decode(topology) ELSE <<>>
       /\ polys' = IF ReachesBBox(stateData, cityName)
                   THEN PolysOf(topology, fips) ELSE <<>>
  /\ previous' = IF calls = 0 THEN previous
                 ELSE [kind |-> "call", args |-> args, bb |-> bb,
                       aligned |-> aligned]
  /\ calls' = calls + 1
  /\ pc' = "alignDone"
  /\ UNCHANGED <<topology, stateData>>
  /\ UNCHANGED landingVars
  /\ UNCHANGED <<hrefVars, workerVars>>

NextAlign == CallGetExpectedAlignedCityPoint

SpecAlign == InitAlign /\ [][NextAlign]_vars

\* ------------------------------------------------------------------------
\* buildExploreHref

\* String(n) for the numbers that are passed.
String(x) ==
  CASE x = Num(0) -> "0"
    [] x = [n |-> 399, d |-> 10] -> "39.9"
    [] x = [n |-> -414, d |-> 5] -> "-82.8"
    [] x = NaN -> "NaN"

\* The application/x-www-form-urlencoded form of a token: a space becomes
\* "+", and "&" and "=" are percent-encoded.
UrlEncode(tok) ==
  CASE tok = "Canal Winchester" -> "Canal+Winchester"
    [] tok = "R&D" -> "R%26D"
    [] OTHER -> tok

UrlEncodeString(str) == [i \in 1 .. Len(str) |-> UrlEncode(str[i])]

\* params.set(name, value) on parameters whose names are all different
ParamsSet(params, name, value) == Append(params, <<name, value>>)

\* params.toString(): name=value pairs joined by "&", in insertion order.
RECURSIVE ParamsToString(_)
ParamsToString(params) ==
  IF params = <<>> THEN <<>>
  ELSE <<Head(params)[1], "=">> \o UrlEncodeString(Head(params)[2])
         \o (IF Tail(params) = <<>> THEN <<>>
             ELSE <<"&">> \o ParamsToString(Tail(params)))

\* x != null, with the number 0 taken for no value.
NotNullNorZero(x) == x # Undefined /\ x # Some(Num(0))

\* x != null; undefined stands for null as well.
NotNull(x) == x # Undefined

\* if (state), if (city): a string that is present and not empty.
TruthyString(o) == o # Undefined /\ Truthy(ValueOf(o))

buildExploreHref(state, lat, lon, city) ==
  LET p0 == <<>>
      p1 == IF TruthyString(state) THEN ParamsSet(p0, "state", ValueOf(state))
            ELSE p0
      p2 == IF NotNull(lat) /\ NotNull(lon)
            THEN ParamsSet(ParamsSet(p1, "lat", <<String(ValueOf(lat))>>),
                           "lon", <<String(ValueOf(lon))>>)
            ELSE p1
      p3 == IF TruthyString(city) THEN ParamsSet(p2, "city", ValueOf(city))
            ELSE p2
      qs == ParamsToString(p3)
  IN  IF Truthy(qs) THEN <<"/explore.html", "?">> \o qs
      ELSE <<"/explore.html">>

StateValues == {Undefined, Some(<<>>), Some(<<"OH">>)}

LatValues == {Undefined, Some(Num(0)), Some([n |-> 399, d |-> 10]), Some(NaN)}

LonValues == {Undefined, Some(Num(0)), Some([n |-> -414, d |-> 5])}

HrefCityValues ==
  {Undefined, Some(<<>>), Some(CanalWinchester), Some(<<"R&D">>)}

InitHref ==
  /\ pc = "href"
  /\ hrefArgs \in [state : StateValues, lat : LatValues, lon : LonValues,
                   city : HrefCityValues]
  /\ href = <<>>
  /\ NoLanding
  /\ NoMap
  /\ NoWorker

CallBuildExploreHref ==
  /\ pc = "href"
  /\ href' = buildExploreHref(hrefArgs.state, hrefArgs.lat, hrefArgs.lon,
                              hrefArgs.city)
  /\ pc' = "hrefDone"
  /\ UNCHANGED hrefArgs
  /\ UNCHANGED <<landingVars, mapVars, workerVars>>

NextHref == CallBuildExploreHref

SpecHref == InitHref /\ [][NextHref]_vars

\* ------------------------------------------------------------------------
\* The worker: validation of naep.json

\* Runs of digits, with the number each one reads as.
DigitRuns == {"3", "4", "7", "10", "007"}

\* Number(m[1]), Number(m[2])
Number(tok) ==
  CASE tok = "3" -> 3
    [] tok = "4" -> 4
    [] tok = "7" -> 7
    [] tok = "10" -> 10
    [] tok = "007" -> 7

\* The words between the numbers, with single spaces and with wider gaps.
OutOf == " out of "

OutOfWide == "  out  of  "

\* A NaepValue; text may be missing, the numbers are optional.
NaepValue(text, numerator, denominator) ==
  [text |-> text, numerator |-> numerator, denominator |-> denominator]

\* TEXT_RE.test(text): /^\d+ out of \d+$/
TEXT_RE_test(text) ==
  /\ Len(text) = 3
  /\ text[1] \in DigitRuns
  /\ text[2] = OutOf
  /\ text[3] \in DigitRuns

\* v && typeof v.text === "string" && TEXT_RE.test(v.text)
isValidValue(v) == v.text # Undefined /\ TEXT_RE_test(ValueOf(v.text))

\* d.states is a list of [key, value] entries, as Object.entries gives them;
\* a key is a sequence of characters.
validateData(d) ==
  /\ d.national # Undefined
  /\ isValidValue(ValueOf(d.national))
  /\ d.states # Undefined
  /\ \A i \in 1 .. Len(ValueOf(d.states)) :
       /\ Len(ValueOf(d.states)[i].key) = 2
       /\ isValidValue(ValueOf(d.states)[i].value)

\* data.states[stateCode]: undefined when no entry has the key.
RECURSIVE StateEntry(_, _)
StateEntry(states, stateCode) ==
  IF states = <<>> THEN Undefined
  ELSE IF Head(states).key = stateCode THEN Some(Head(states).value)
  ELSE StateEntry(Tail(states), stateCode)

\* ------------------------------------------------------------------------
\* The worker: the record that is shown

\* typeof cf.country === "string" ? cf.country : null, and the same for
\* regionCode; a request without cf has neither.
resolveRegion(cf) ==
  IF cf = Undefined THEN [country |-> Undefined, stateCode |-> Undefined]
  ELSE [country |-> ValueOf(cf).country, stateCode |-> ValueOf(cf).regionCode]

\* STATE_NAME[stateCode] ?? stateCode
STATE_NAME(stateCode) ==
  CASE stateCode = <<"O", "H">> -> <<"Ohio">>
    [] stateCode = <<"G", "A">> -> <<"Georgia">>
    [] OTHER -> stateCode

National(data) ==
  [scopeLabel |-> <<"U.S.">>, value |-> ValueOf(data.national), isNational |-> TRUE]

\* The choice that does not look at the country.
chooseByRegionOnly(data, country, stateCode) ==
  IF /\ stateCode # Undefined
     /\ ValueOf(stateCode) # <<>>
     /\ StateEntry(ValueOf(data.states), ValueOf(stateCode)) # Undefined
  THEN [scopeLabel |-> STATE_NAME(ValueOf(stateCode)),
        value |-> ValueOf(StateEntry(ValueOf(data.states), ValueOf(stateCode))),
        isNational |-> FALSE]
  ELSE National(data)

chooseNaepRecord(data, country, stateCode) ==
  IF /\ country = Some(<<"U", "S">>)
     /\ stateCode # Undefined
     /\ ValueOf(stateCode) # <<>>
     /\ StateEntry(ValueOf(data.states), ValueOf(stateCode)) # Undefined
  THEN [scopeLabel |-> STATE_NAME(ValueOf(stateCode)),
        value |-> ValueOf(StateEntry(ValueOf(data.states), ValueOf(stateCode))),
        isNational |-> FALSE]
  ELSE National(data)

\* value.text.match(/^(\d+)\s+out\s+of\s+(\d+)$/)
RatioMatch(text) ==
  /\ Len(text) = 3
  /\ text[1] \in DigitRuns
  /\ text[2] \in {OutOf, OutOfWide}
  /\ text[3] \in DigitRuns

\* parseRatio: the pair of numbers, or a TypeError when the text is missing
\* or does not match.
parseRatio(value) ==
  IF value.numerator # Undefined /\ value.denominator # Undefined
  THEN Some([numerator |-> ValueOf(value.numerator),
             denominator |-> ValueOf(value.denominator)])
  ELSE IF value.text # Undefined /\ RatioMatch(ValueOf(value.text))
  THEN Some([numerator |-> Number(ValueOf(value.text)[1]),
             denominator |-> Number(ValueOf(value.text)[3])])
  ELSE TypeError

\* ------------------------------------------------------------------------
\* The worker: responses

BaseHeaders ==
  { <<"Content-Type", "text/html; charset=utf-8">>,
    <<"Cache-Control", "private, no-store">>,
    <<"Referrer-Policy", "same-origin">>,
    <<"X-Content-Type-Options", "nosniff">>,
    <<"Content-Security-Policy", "default-src 'none'; ...">> }

\* The headers that are passed in, and nothing else.
extraHeadersOnly(extra) == extra

\* new Headers({ ...base, ...(extra || {}) }): an extra header replaces the
\* base header of its name.
baseHeaders(extra) ==
  {h \in BaseHeaders : \A e \in extra : e[1] # h[1]} \cup extra

Response(status, page, headers, ratio, scopeLabel) ==
  [status |-> status, page |-> page, headers |-> headers,
   ratio |-> ratio, scopeLabel |-> scopeLabel]

NoResponse == Response(0, "none", {}, Undefined, Undefined)

MethodNotAllowed ==
  Response(405, "Method Not Allowed", baseHeaders({}), Undefined, Undefined)

Investor ==
  Response(200, "investorHTML", baseHeaders({<<"X-Robots-Tag", "noindex">>}),
           Undefined, Undefined)

NotFound == Response(404, "notFoundHTML", baseHeaders({}), Undefined, Undefined)

\* The response of the catch block.
TemporaryError ==
  Response(200, "Temporary Error", baseHeaders({}), Undefined, Undefined)

\* new Response(homeHTML(numerator, denominator, scopeLabel), ...)
Home(ratio, scopeLabel) ==
  Response(200, "homeHTML", baseHeaders({}), Some(ratio), Some(scopeLabel))

\* GET / once the data are there: the record is chosen, its ratio parsed and
\* the home page rendered; a throw on the way ends in the catch block.
ServeHome(data, cf) ==
  LET region == resolveRegion(cf)
      record == chooseNaepRecord(data, region.country, region.stateCode)
      ratio == parseRatio(record.value)
  IN  IF ratio = TypeError THEN TemporaryError
      ELSE Home(ValueOf(ratio), record.scopeLabel)

\* ------------------------------------------------------------------------
\* The worker: the asset and the requests

Text(n, words, m) == Some(<<n, words, m>>)

StateOf(key, value) == [key |-> key, value |-> value]

Asset(ok, json, national, states) ==
  [ok |-> ok, json |-> json, national |-> national, states |-> states]

SevenOfTen == NaepValue(Text("7", OutOf, "10"), Undefined, Undefined)

FourOfTen == NaepValue(Text("4", OutOf, "10"), Undefined, Undefined)

\* The public/naep.json that ASSETS serves: valid ones, one of them with
\* numerator and denominator fields that agree with the text and one with
\* fields that do not; invalid ones; one that is no JSON; and a response
\* that is not OK.
Assets ==
  << Asset(TRUE, TRUE, Some(FourOfTen),
       Some(<< StateOf(<<"O", "H">>, SevenOfTen),
               StateOf(<<"G", "A">>,
                       NaepValue(Text("3", OutOf, "4"), Some(3), Some(4))),
               StateOf(<<"P", "R">>,
                       NaepValue(Text("007", OutOf, "10"), Undefined,
                                 Some(10))) >>)),
     Asset(TRUE, TRUE, Some(FourOfTen),
       Some(<< StateOf(<<"O", "H">>,
                       NaepValue(Text("7", OutOf, "10"), Some(3), Some(4)))
            >>)),
     Asset(TRUE, TRUE, Some(FourOfTen),
       Some(<<StateOf(<<"O", "H", "I">>, SevenOfTen)>>)),
     Asset(TRUE, TRUE,
       Some(NaepValue(Text("4", OutOfWide, "10"), Undefined, Undefined)),
       Some(<<StateOf(<<"O", "H">>, SevenOfTen)>>)),
     Asset(TRUE, TRUE, Some(FourOfTen),
       Some(<<StateOf(<<"O", "H">>,
                      NaepValue(Undefined, Some(7), Some(10)))>>)),
     Asset(TRUE, TRUE, Some(FourOfTen), Undefined),
     Asset(TRUE, TRUE, Undefined, Some(<<>>)),
     Asset(TRUE, FALSE, Undefined, Undefined),
     Asset(FALSE, FALSE, Undefined, Undefined) >>

Cf(country, regionCode) == Some([country |-> country, regionCode |-> regionCode])

\* request.cf: missing, or the country and region that Cloudflare gives.
CfValues ==
  { Undefined,
    Cf(Some(<<"U", "S">>), Some(<<"O", "H">>)),
    Cf(Some(<<"U", "S">>), Some(<<"P", "R">>)),
    Cf(Some(<<"U", "S">>), Some(<<"Z", "Z">>)),
    Cf(Some(<<"U", "S">>), Some(<<>>)),
    Cf(Some(<<"U", "S">>), Undefined),
    Cf(Some(<<"I", "N">>), Some(<<"G", "A">>)),
    Cf(Undefined, Some(<<"O", "H">>)) }

Request(method, pathname, cf) ==
  [method |-> method, pathname |-> pathname, cf |-> cf]

Requests ==
  { Request("POST", "/", Undefined), Request("POST", "/about", Undefined),
    Request("POST", "/investor", Undefined),
    Request("GET", "/investor", Undefined), Request("GET", "/about", Undefined) }
    \cup { Request("GET", "/", cf) : cf \in CfValues }

InitWorker ==
  /\ pc = "worker"
  /\ NAEP_DATA_PROMISE = [state |-> "null"]
  /\ \E k \in 1 .. Len(Assets) : asset = Assets[k]
  /\ fetches = 0
  /\ parses = 0
  /\ requests = <<>>
  /\ NoLanding
  /\ NoMap
  /\ NoHref

\* A request that was received, with how far its handler has come.
Received(request, stage, response) ==
  [request |-> request, stage |-> stage, response |-> response]

\* if (!NAEP_DATA_PROMISE), taking a rejected promise for none.
NeedsLoadUnlessResolved(promise) == promise.state \in {"null", "rejected"}

\* if (!NAEP_DATA_PROMISE), always true.
NeedsLoadAlways(promise) == TRUE

\* if (!NAEP_DATA_PROMISE)
NeedsLoad(promise) == promise.state = "null"

\* The response a request gets without waiting, or none for GET /.
Immediate(request) ==
  IF request.method # "GET" THEN MethodNotAllowed
  ELSE IF request.pathname = "/investor" THEN Investor
  ELSE IF request.pathname = "/" THEN NoResponse
  ELSE NotFound

\* fetch(request, env) up to its return or its first await.  For GET /
\* loadNaep runs: when no promise is cached the loader starts, calls
\* env.ASSETS.fetch and is cached before anything else can run.
Receive ==
  /\ pc = "worker"
  /\ Len(requests) < MaxRequests
  /\ \E request \in Requests :
       IF request.method = "GET" /\ request.pathname = "/"
       THEN /\ requests' = Append(requests,
                                  Received(request, "awaiting", NoResponse))
            /\ IF NeedsLoad(NAEP_DATA_PROMISE)
               THEN /\ NAEP_DATA_PROMISE' = [state |-> "fetching"]
                    /\ fetches' = fetches + 1
               ELSE UNCHANGED <<NAEP_DATA_PROMISE, fetches>>
       ELSE /\ requests' = Append(requests,
                                  Received(request, "responded",
                                           Immediate(request)))
            /\ UNCHANGED <<NAEP_DATA_PROMISE, fetches>>
  /\ UNCHANGED <<pc, asset, parses>>
  /\ UNCHANGED <<landingVars, mapVars, hrefVars>>

\* env.ASSETS.fetch settles: a response that is not OK rejects the cached
\* promise, an OK one is read with res.json().
AssetResponds ==
  /\ pc = "worker"
  /\ NAEP_DATA_PROMISE.state = "fetching"
  /\ IF asset.ok
     THEN /\ NAEP_DATA_PROMISE' = [state |-> "parsing"]
          /\ parses' = parses + 1
     ELSE /\ NAEP_DATA_PROMISE' = [state |-> "rejected"]
          /\ UNCHANGED parses
  /\ UNCHANGED <<pc, asset, fetches, requests>>
  /\ UNCHANGED <<landingVars, mapVars, hrefVars>>

\* res.json() settles: the promise rejects when the body is no JSON or fails
\* validateData, and resolves to the data otherwise.
JsonArrives ==
  /\ pc = "worker"
  /\ NAEP_DATA_PROMISE.state = "parsing"
  /\ NAEP_DATA_PROMISE' =
       IF asset.json /\ validateData(asset)
       THEN [state |-> "resolved"] ELSE [state |-> "rejected"]
  /\ UNCHANGED <<pc, asset, fetches, parses, requests>>
  /\ UNCHANGED <<landingVars, mapVars, hrefVars>>

\* await loadNaep(env) is over for one request: the rest of its handler runs,
\* or its catch block when the promise was rejected.
Resume ==
  /\ pc = "worker"
  /\ NAEP_DATA_PROMISE.state \in {"resolved", "rejected"}
  /\ \E i \in 1 .. Len(requests) :
       /\ requests[i].stage = "awaiting"
       /\ requests' =
            [requests EXCEPT
               ![i] = Received(requests[i].request, "responded",
                        IF NAEP_DATA_PROMISE.state = "resolved"
                        THEN ServeHome(asset, requests[i].request.cf)
                        ELSE TemporaryError)]
  /\ UNCHANGED <<pc, NAEP_DATA_PROMISE, asset, fetches, parses>>
  /\ UNCHANGED <<landingVars, mapVars, hrefVars>>

NextWorker == Receive \/ AssetResponds \/ JsonArrives \/ Resume

SpecWorker == InitWorker /\ [][NextWorker]_vars

\* Any of the components, on any of its inputs.
Init ==
  InitFraction \/ InitLabel \/ InitBBox \/ InitAlign \/ InitHref
    \/ InitWorker

Next ==
  NextFraction \/ NextLabel \/ NextBBox \/ NextAlign \/ NextHref
    \/ NextWorker

Spec == Init /\ [][Next]_vars

\* ------------------------------------------------------------------------
\* Properties of proficiencyToFraction

FractionDone == pc = "fractionDone"

\* The proficiency of the current state is the decimal t / 1000.
IsThousandths(t) == proficiency.n * 1000 = t * proficiency.d

\* C1: for every proficiency in [0,1] the returned denominator is 4, 5 or 10
\* and the returned numerator lies in 1 .. denominator - 1.
C1_FractionInRange ==
  FractionDone =>
    /\ fraction.denominator \in {4, 5, 10}
    /\ 1 <= fraction.numerator
    /\ fraction.numerator <= fraction.denominator - 1

\* C1 witness: proficiency 1, where the rounded numerator 0 was clamped to 1.
C1_Witness ==
  /\ FractionDone
  /\ proficiency.n = proficiency.d
  /\ fraction = [numerator |-> 1, denominator |-> 10]

\* |round((1-p)*den)/den - (1-p)| in units of 1 / (den * proficiency.d).
C2_ScaledError(den) ==
  LET below == proficiency.d - proficiency.n
      num   == (2 * below * den + proficiency.d) \div (2 * proficiency.d)
  IN  Abs(num * proficiency.d - below * den)

\* The error of denominator a is smaller than that of b.
C2_Closer(a, b) == C2_ScaledError(a) * b < C2_ScaledError(b) * a

C2_Rounded(den) ==
  (2 * (proficiency.d - proficiency.n) * den + proficiency.d)
    \div (2 * proficiency.d)

\* C2: the selected denominator has the smallest absolute error among 4, 5
\* and 10, the largest one among those of equal error; its numerator is the
\* rounded one wherever that is a valid numerator; 0.615 gives 4/10, 0.5
\* gives 5/10, 0.2 gives 8/10 and 0.75 gives 1/4.
C2_BestFitLargestOnTie ==
  FractionDone =>
    /\ \A den \in {4, 5, 10} :
         /\ ~C2_Closer(den, fraction.denominator)
         /\ ~C2_Closer(fraction.denominator, den) => den <= fraction.denominator
    /\ C2_Rounded(fraction.denominator) \in 1 .. fraction.denominator - 1
         => fraction.numerator = C2_Rounded(fraction.denominator)
    /\ IsThousandths(615) => fraction = [numerator |-> 4, denominator |-> 10]
    /\ IsThousandths(500) => fraction = [numerator |-> 5, denominator |-> 10]
    /\ IsThousandths(200) => fraction = [numerator |-> 8, denominator |-> 10]
    /\ IsThousandths(750) => fraction = [numerator |-> 1, denominator |-> 4]

\* C2 witness: proficiency 0.5, where 2/4 and 5/10 are both exact and the
\* larger denominator was taken.
C2_Witness ==
  /\ FractionDone
  /\ IsThousandths(500)
  /\ fraction = [numerator |-> 5, denominator |-> 10]

\* C3: proficiency 0 returns numerator = denominator - 1 and proficiency 1
\* returns numerator = 1.
C3_ClampAtExtremes ==
  FractionDone =>
    /\ proficiency.n = 0 => fraction.numerator = fraction.denominator - 1
    /\ proficiency.n = proficiency.d => fraction.numerator = 1

\* C3 witness: proficiency 0, where the rounded numerator 10 was clamped to 9.
C3_Witness ==
  /\ FractionDone
  /\ proficiency.n = 0
  /\ fraction = [numerator |-> 9, denominator |-> 10]

\* ------------------------------------------------------------------------
\* Properties of extractLocationLabel

LabelDone == pc = "labelDone"

Done_52 == LabelDone /\ called = "extractLocationLabel_52"

Done_169 == LabelDone /\ called = "extractLocationLabel_169"

\* The entries of geo.localityInfo[which], none when any part is absent.
EntriesOf(which) ==
  IF geo.localityInfo = Undefined THEN <<>>
  ELSE IF ValueOf(geo.localityInfo)[which] = Undefined THEN <<>>
  ELSE ValueOf(ValueOf(geo.localityInfo)[which])

Returned(s) == label = [kind |-> "return", value |-> s]

\* The field is absent or empty after trimming.
BlankField(o) == o = Undefined \/ Trim(ValueOf(o)) = <<>>

\* An informative entry as the claim C4 words it: order >= 4 and a name that
\* does not match the administrative-unit pattern (tested, as the code tests
\* it, on the trimmed name).
C4_QualifiesAsWorded(e) ==
  /\ e.order # Undefined
  /\ ValueOf(e.order) >= 4
  /\ ~ADMIN_PATTERN_test(Trim(e.name))

\* The same with a non-empty name.
C4_QualifiesNamed(e) == C4_QualifiesAsWorded(e) /\ e.name # <<>>

DigitTokens == {"43110", "39", "045", "80206"}

\* A bare numeric code: digits, possibly in groups joined by "-".
IsNumericCode(s) ==
  /\ s # <<>>
  /\ \A i \in 1 .. Len(s) : s[i] \in DigitTokens \cup {"-"}

\* A timezone name: Area/Location.
IsTimeZone(s) == \E i \in 1 .. Len(s) : s[i] = "/"

\* C5: for every GeoResponse, also one whose informative list holds a FIPS
\* code, a postal code and a timezone name with order >= 4, the label is no
\* bare numeric code, no postal code and no timezone string.
C5_NeverACode ==
  LabelDone =>
    /\ label.kind = "return"
    /\ ~IsNumericCode(Trim(label.value))
    /\ ~IsTimeZone(label.value)

\* No informative entry passes the filter of the first step.
NoInformativeQualifies ==
  \A i \in 1 .. Len(EntriesOf("informative")) :
    ~C4_QualifiesNamed(EntriesOf("informative")[i])

\* No administrative entry passes the filter of the third step of the
\* locality-first revision.
NoAdministrativeQualifies ==
  \A i \in 1 .. Len(EntriesOf("administrative")) :
    LET e == EntriesOf("administrative")[i]
    IN  ~ /\ e.adminLevel # Undefined
          /\ ValueOf(e.adminLevel) >= 8
          /\ e.name # <<>>
          /\ ~ADMIN_PATTERN_test(Trim(e.name))

C8_AdminLocalitySkipped ==
  (/\ LabelDone
   /\ BlankField(geo.city)
   /\ NoInformativeQualifies
   /\ NoAdministrativeQualifies
   /\ geo.locality # Undefined
   /\ ADMIN_PATTERN_test(Trim(ValueOf(geo.locality)))) =>
    Returned(IF geo.principalSubdivision = Undefined THEN <<>>
             ELSE Trim(ValueOf(geo.principalSubdivision)))

\* C8 witness: {city: "", locality: "County of Los Angeles"} with a padded
\* principalSubdivision, which is returned trimmed.
C8_Witness ==
  /\ Done_169
  /\ geo.city = Some(<<>>)
  /\ geo.locality = Some(CountyOfLosAngeles)
  /\ geo.principalSubdivision = Some(PaddedOhio)
  /\ Returned(<<"Ohio">>)

\* No field of the payload yields a name.
NoUsableField ==
  /\ BlankField(geo.city)
  /\ BlankField(geo.locality)
  /\ BlankField(geo.principalSubdivision)
  /\ NoInformativeQualifies
  /\ NoAdministrativeQualifies

\* C9: extractLocationLabel never throws, whichever of city, locality,
\* principalSubdivision, localityInfo, its two lists and the entries' order
\* and adminLevel are absent; it returns "" when no field is usable.
C9_NeverThrows ==
  LabelDone =>
    /\ label.kind = "return"
    /\ NoUsableField => label.value = <<>>

\* C9 witness: the payload {} was resolved to "".
C9_Witness ==
  /\ LabelDone
  /\ geo = NoGeo
  /\ Returned(<<>>)

\* C10: the label never matches the administrative-unit pattern, whichever
\* field it was taken from.
C10_NeverAdministrative ==
  LabelDone => ~ADMIN_PATTERN_test(label.value)

\* Neither locality nor city yields a name in the locality-first revision:
\* each is absent, empty after trimming, or an administrative name.
C11_LocalityAndCityUnusable ==
  /\ BlankField(geo.locality) \/ ADMIN_PATTERN_test(Trim(ValueOf(geo.locality)))
  /\ BlankField(geo.city) \/ ADMIN_PATTERN_test(Trim(ValueOf(geo.city)))

\* An administrative entry as the claim C11 words it: adminLevel >= 8 and a
\* name that does not match the administrative-unit pattern.
C11_QualifiesAsWorded(e) ==
  /\ e.adminLevel # Undefined
  /\ ValueOf(e.adminLevel) >= 8
  /\ ~ADMIN_PATTERN_test(Trim(e.name))

\* The label the claim C11 prescribes, for the entries q that qualify.
C11_Prescribed(q) ==
  LET adm == EntriesOf("administrative")
  IN  IF q # {}
      THEN \E i \in q :
             /\ \A j \in q :
                  ValueOf(adm[j].adminLevel) <= ValueOf(adm[i].adminLevel)
             /\ Returned(adm[i].name)
      ELSE Returned(IF geo.principalSubdivision = Undefined THEN <<>>
                    ELSE Trim(ValueOf(geo.principalSubdivision)))

BBoxDone == pc = "bboxDone"

\* Every element of the arc is a pair of two numbers.
IsPairs(arc) == \A k \in 1 .. Len(arc) : Len(arc[k]) = 2

\* Some geometry of the topology carries the FIPS code asked for.
Present(fips) ==
  \E i \in 1 .. Len(topology.geometries) : topology.geometries[i].id = fips

\* The geometries that carry the FIPS code asked for.
Asked == {i \in 1 .. Len(topology.geometries) :
            topology.geometries[i].id = args.fips}

\* The arc indices that the rings of a geometry list.
IndicesOf(geom) ==
  IF geom.type = "MultiPolygon" THEN Flatten(Flatten(geom.arcs))
  ELSE Flatten(geom.arcs)

\* The arc of the topology that an index of a ring stands for.
Referenced(i) == topology.arcs[(IF i >= 0 THEN i ELSE -i - 1) + 1]

\* A ring of the geometry has a point: it lists an arc that is not empty.
HasRingPoint(geom) ==
  \E k \in 1 .. Len(IndicesOf(geom)) : Referenced(IndicesOf(geom)[k]) # <<>>

\* x <= y
LessEq(x, y) == Less(x, y) \/ (x = y /\ ~IsNaN(x))

\* C12: for a topology whose arcs are pairs of numbers and a region id it
\* carries whose geometry has at least one ring point, the bounding box has
\* x0 <= x1, y0 <= y1, w = x1 - x0 and h = y1 - y0, whatever the sign of the
\* scale and whether the geometry is a Polygon or a MultiPolygon.
C12_BBoxOrdered ==
  \A i \in Asked :
    ( /\ BBoxDone
      /\ \A a \in 1 .. Len(topology.arcs) : IsPairs(topology.arcs[a])
      /\ HasRingPoint(topology.geometries[i]) ) =>
        /\ bb.kind = "bbox"
        /\ LessEq(bb.x0, bb.x1)
        /\ LessEq(bb.y0, bb.y1)
        /\ IsFinite(bb.x0) /\ IsFinite(bb.x1)
        /\ IsFinite(bb.y0) /\ IsFinite(bb.y1)
        /\ bb.w.n * bb.x0.d * bb.x1.d
             = (bb.x1.n * bb.x0.d - bb.x0.n * bb.x1.d) * bb.w.d
        /\ bb.h.n * bb.y0.d * bb.y1.d
             = (bb.y1.n * bb.y0.d - bb.y0.n * bb.y1.d) * bb.h.d

\* C12 witness: a MultiPolygon under a negative scale whose bounding box has
\* a positive width and a positive height.
C12_Witness ==
  /\ BBoxDone
  /\ args.fips = "39"
  /\ topology.geometries[1].type = "MultiPolygon"
  /\ topology.transform = Some([scale |-> <<-1, -2>>, translate |-> <<0, 5>>])
  /\ \A a \in 1 .. Len(topology.arcs) : IsPairs(topology.arcs[a])
  /\ bb.kind = "bbox"
  /\ Less(bb.x0, bb.x1)
  /\ Less(bb.y0, bb.y1)

\* The sum of the c-th numbers of the first k elements of an arc.
RECURSIVE SumOfFirst(_, _, _)
SumOfFirst(arc, k, c) ==
  IF k = 0 THEN 0 ELSE arc[k][c] + SumOfFirst(arc, k - 1, c)

\* The scale and translate the claim C13 names: those of the transform, or
\* (1, 1) and (0, 0) when the topology has none.
C13_Scale ==
  IF topology.transform = Undefined THEN <<1, 1>>
  ELSE ValueOf(topology.transform).scale

C13_Translate ==
  IF topology.transform = Undefined THEN <<0, 0>>
  ELSE ValueOf(topology.transform).translate

\* C13: an arc of n delta pairs decodes to exactly n points, the k-th being
\* (sx * sum of the first k dx + tx, sy * sum of the first k dy + ty), with
\* scale (1, 1) and translate (0, 0) when the topology has no transform.
C13_PrefixSums ==
  BBoxDone =>
    /\ Len(decoded) = Len(topology.arcs)
    /\ \A a \in 1 .. Len(topology.arcs) :
         IsPairs(topology.arcs[a]) =>
           /\ Len(decoded[a]) = Len(topology.arcs[a])
           /\ \A k \in 1 .. Len(topology.arcs[a]) :
                decoded[a][k] =
                  << Num(C13_Scale[1] * SumOfFirst(topology.arcs[a], k, 1)
                           + C13_Translate[1]),
                     Num(C13_Scale[2] * SumOfFirst(topology.arcs[a], k, 2)
                           + C13_Translate[2]) >>

\* C13 witness: without a transform an arc of three delta pairs has decoded
\* to its three prefix sums.
C13_Witness ==
  /\ BBoxDone
  /\ topology.transform = Undefined
  /\ topology.arcs[1] = <<<<1, 2>>, <<-3, 1>>, <<1, 2>>>>
  /\ decoded[1] = << <<Num(1), Num(2)>>, <<Num(-2), Num(3)>>,
                     <<Num(-1), Num(5)>> >>

\* An arc is empty or has an element that is not a pair of two numbers.
C14_EmptyOrMalformed(arc) == arc = <<>> \/ ~IsPairs(arc)

\* C14: when an arc is empty or malformed the call fails with a DecodeError
\* and no decoded point list exists for that arc.
C14_DecodeFails ==
  BBoxDone =>
    \A a \in 1 .. Len(topology.arcs) :
      C14_EmptyOrMalformed(topology.arcs[a]) =>
        /\ bb = Thrown("DecodeError")
        /\ Len(decoded) < a

\* C15: a region with zero rings or zero ring points fails with an
\* EmptyGeometryError; no bounding box is returned whose bounds are still
\* the initial +Infinity / -Infinity.
C15_EmptyGeometryFails ==
  \A i \in Asked :
    (BBoxDone /\ ~HasRingPoint(topology.geometries[i])) =>
      /\ bb = Thrown("EmptyGeometryError")
      /\ ~(bb.kind = "bbox" /\ bb.x0 = Infinity)

\* ------------------------------------------------------------------------
\* Properties of getExpectedAlignedCityPoint

AlignDone == pc = "alignDone"

\* The three lists of the file, one after the other.
Listed ==
  stateData.cities
    \o (IF stateData.districts = Undefined THEN <<>>
        ELSE stateData.districts[1])
    \o (IF stateData.schools = Undefined THEN <<>>
        ELSE stateData.schools[1])

\* The cloud: the listed points left after dropping the non-finite ones.
Cloud == {i \in 1 .. Len(Listed) : Listed[i].x.d # 0 /\ Listed[i].y.d # 0}

\* Some city of the file carries the name, letter case apart.
Carried(cityName) ==
  \E i \in 1 .. Len(stateData.cities) :
    ToLowerCaseString(stateData.cities[i].name) = ToLowerCaseString(cityName)

\* C16: asking for a region id that no geometry of the topology carries, or
\* for a city name that no city of the state's file carries (letter case
\* apart), ends in an error: no bounding box and no aligned point result.
C16_LookupsFail ==
  AlignDone =>
    /\ ~Present(args.fips) =>
         (aligned.kind = "error" /\ bb.kind # "bbox")
    /\ ~Carried(args.cityName) =>
         (aligned = Thrown("Missing city") /\ bb.kind # "bbox")

\* C16 witness: a call for a city that the file lacks has thrown, and so has
\* the next call, for a city the file has under another letter case and a
\* region id that the topology lacks.
C16_Witness ==
  /\ AlignDone
  /\ previous.kind = "call"
  /\ previous.args.cityName = <<"Dublin">>
  /\ previous.aligned = Thrown("Missing city")
  /\ args = [fips |-> "99", cityName |-> <<"CANAL WINCHESTER">>]
  /\ Cloud # {}
  /\ bb = Thrown("Missing geometry for FIPS")
  /\ aligned = Thrown("Missing geometry for FIPS")

\* The cloud is empty, or all its points share their x or share their y.
C17_Degenerate ==
  \/ Cloud = {}
  \/ \A i, j \in Cloud : Listed[i].x = Listed[j].x
  \/ \A i, j \in Cloud : Listed[i].y = Listed[j].y

\* C17: for a cloud that is empty or of zero width or zero height the
\* aligner fails; it returns no position.
C17_DegenerateCloudFails ==
  (AlignDone /\ C17_Degenerate) => aligned.kind = "error"

\* 0 < x for a finite x
Positive(x) == x.d # 0 /\ x.n > 0

\* The position the locals of the last call give to a point of the cloud.
MappedX(p) ==
  Add(aligned.ox, Mul(Sub(p.x, aligned.dx0), aligned.alignScale))

MappedY(p) ==
  Add(aligned.oy, Mul(Sub(p.y, aligned.dy0), aligned.alignScale))

\* The preconditions of the claim C18; pad is the constant 0.04.
C18_Proper ==
  /\ AlignDone
  /\ aligned.kind = "point"
  /\ Positive(bb.w) /\ Positive(bb.h)
  /\ Positive(aligned.dw) /\ Positive(aligned.dh)
  /\ LessEq(Num(0), pad) /\ Less(Mul(Num(2), pad), Num(1))

\* C18: for a target box of positive width and height and a cloud of
\* positive width and height, every point of the cloud is mapped into the
\* padded target area, by the one scale factor min(availW/dw, availH/dh) on
\* both axes; the city asked for, when it is of the cloud, is returned at
\* its mapped position.
C18_InsidePaddedArea ==
  C18_Proper =>
    /\ aligned.availW = Mul(bb.w, Sub(Num(1), Mul(Num(2), pad)))
    /\ aligned.availH = Mul(bb.h, Sub(Num(1), Mul(Num(2), pad)))
    /\ LessEq(Mul(aligned.alignScale, aligned.dw), aligned.availW)
    /\ LessEq(Mul(aligned.alignScale, aligned.dh), aligned.availH)
    /\ \/ Mul(aligned.alignScale, aligned.dw) = aligned.availW
       \/ Mul(aligned.alignScale, aligned.dh) = aligned.availH
    /\ \A i \in Cloud :
         /\ LessEq(Add(bb.x0, Mul(bb.w, pad)), MappedX(Listed[i]))
         /\ LessEq(MappedX(Listed[i]), Sub(bb.x1, Mul(bb.w, pad)))
         /\ LessEq(Add(bb.y0, Mul(bb.h, pad)), MappedY(Listed[i]))
         /\ LessEq(MappedY(Listed[i]), Sub(bb.y1, Mul(bb.h, pad)))
         /\ ToLowerCaseString(Listed[i].name)
              = ToLowerCaseString(args.cityName) =>
              (aligned.x = MappedX(Listed[i]) /\ aligned.y = MappedY(Listed[i]))

\* C18 witness: in the box of 20 by 80 the width binds; the city asked for
\* is the rightmost point of the cloud and lands on the right border of the
\* padded area, strictly inside it vertically.
C18_Witness ==
  /\ C18_Proper
  /\ args.fips = "42"
  /\ Mul(aligned.alignScale, aligned.dw) = aligned.availW
  /\ Less(Mul(aligned.alignScale, aligned.dh), aligned.availH)
  /\ aligned.x = Sub(bb.x1, Mul(bb.w, pad))
  /\ Less(Add(bb.y0, Mul(bb.h, pad)), aligned.y)
  /\ Less(aligned.y, Sub(bb.y1, Mul(bb.h, pad)))

\* Half of a number.
Half(x) == Div(x, Num(2))

\* The scenario of the claim C19: the state's box is {x0: 0, y0: 0, w: 100,
\* h: 50}, the cloud's box is 10 by 10 at the origin, and the city is (5, 5).
C19_Scenario ==
  /\ bb.kind = "bbox"
  /\ bb.x0 = Num(0) /\ bb.y0 = Num(0) /\ bb.w = Num(100) /\ bb.h = Num(50)
  /\ aligned.dx0 = Num(0) /\ aligned.dy0 = Num(0)
  /\ aligned.dw = Num(10) /\ aligned.dh = Num(10)
  /\ \E i \in Cloud :
       /\ ToLowerCaseString(Listed[i].name) = ToLowerCaseString(args.cityName)
       /\ Listed[i].x = Num(5) /\ Listed[i].y = Num(5)

\* C19: the centre of the cloud's own box is mapped to the centre of the
\* target box on both axes; in the scenario the point (5, 5) is returned at
\* (50, 25).
C19_Centred ==
  (AlignDone /\ aligned.kind = "point") =>
    /\ MappedX([x |-> Add(aligned.dx0, Half(aligned.dw))])
         = Add(bb.x0, Half(bb.w))
    /\ MappedY([y |-> Add(aligned.dy0, Half(aligned.dh))])
         = Add(bb.y0, Half(bb.h))
    /\ C19_Scenario => (aligned.x = Num(50) /\ aligned.y = Num(25))

\* The factors by which the boxes of the states differ.
C20_Factors == {Num(1), Num(2), [n |-> 1, d |-> 2]}

\* The last call had the city of the call before it and a target box of the
\* same origin, k times as wide and k times as high.
C20_Rescaled(k) ==
  /\ args.cityName = previous.args.cityName
  /\ bb.kind = "bbox"
  /\ previous.bb.kind = "bbox"
  /\ bb.x0 = previous.bb.x0
  /\ bb.y0 = previous.bb.y0
  /\ bb.w = Mul(k, previous.bb.w)
  /\ bb.h = Mul(k, previous.bb.h)

\* C20: with the cloud, the pad and the origin of the target box fixed,
\* a target box k times as wide and as high multiplies by k the offset of
\* the returned point from the origin of the box; and a call with the
\* arguments of the call before it returns what that call returned.
C20_ScaleCovariant ==
  (AlignDone /\ previous.kind = "call") =>
    /\ args = previous.args =>
         (aligned = previous.aligned /\ bb = previous.bb)
    /\ \A k \in C20_Factors :
         C20_Rescaled(k) =>
           /\ aligned.kind = "point"
           /\ previous.aligned.kind = "point"
           /\ Sub(aligned.x, bb.x0)
                = Mul(k, Sub(previous.aligned.x, previous.bb.x0))
           /\ Sub(aligned.y, bb.y0)
                = Mul(k, Sub(previous.aligned.y, previous.bb.y0))

\* C20 witness: the same city was placed in the box of 100 by 50 and then
\* in the box of 200 by 100, both at the origin (10, 20); its offset from
\* the origin, which is positive, has doubled.
C20_Witness ==
  /\ AlignDone
  /\ previous.kind = "call"
  /\ previous.args.fips = "39"
  /\ args.fips = "40"
  /\ C20_Rescaled(Num(2))
  /\ bb.x0 = Num(10) /\ bb.y0 = Num(20)
  /\ Positive(Sub(previous.aligned.x, previous.bb.x0))
  /\ Positive(Sub(previous.aligned.y, previous.bb.y0))
  /\ Sub(aligned.x, bb.x0) = Mul(Num(2), Sub(previous.aligned.x, previous.bb.x0))
  /\ Sub(aligned.y, bb.y0) = Mul(Num(2), Sub(previous.aligned.y, previous.bb.y0))

\* ------------------------------------------------------------------------
\* Properties of ring

\* The index lists of the rings of a geometry, polygon by polygon.
IndexLists(geom) ==
  IF geom.type = "MultiPolygon" THEN geom.arcs ELSE <<geom.arcs>>

\* The decoded arc an index stands for, read in the direction the index asks.
C24_Directed(i) ==
  IF i >= 0 THEN decoded[i + 1]
  ELSE [j \in 1 .. Len(decoded[-i]) |-> decoded[-i][Len(decoded[-i]) + 1 - j]]

\* An arc without its first point.
C24_Rest(arc) == [j \in 1 .. Len(arc) - 1 |-> arc[j + 1]]

\* The ring the claim C24 describes: all of the first arc, then every later
\* arc without its first point.
RECURSIVE C24_Joined(_, _)
C24_Joined(idx, k) ==
  IF k = 0 THEN <<>>
  ELSE IF k = 1 THEN C24_Directed(idx[1])
  ELSE C24_Joined(idx, k - 1) \o C24_Rest(C24_Directed(idx[k]))

\* C24: every ring built for the geometry asked for is its first arc,
\* forward or reversed as its index says, followed by every later arc less
\* its first point, and the decoded arcs are the same after the reversals.
C24_RingJoinsArcs ==
  \A g \in Asked :
    BBoxDone =>
      /\ decoded = Decode(topology)
      /\ Len(polys) = Len(IndexLists(topology.geometries[g]))
      /\ \A q \in 1 .. Len(polys) :
           LET lists == IndexLists(topology.geometries[g])[q]
           IN  /\ Len(polys[q]) = Len(lists)
               /\ \A r \in 1 .. Len(lists) :
                    polys[q][r] = C24_Joined(lists[r], Len(lists[r]))

\* C24 restricted to the rings that list no empty arc.
C24_NonEmptyArcs ==
  \A g \in Asked :
    BBoxDone =>
      \A q \in 1 .. Len(polys) :
        LET lists == IndexLists(topology.geometries[g])[q]
        IN  \A r \in 1 .. Len(lists) :
              (\A k \in 1 .. Len(lists[r]) : C24_Directed(lists[r][k]) # <<>>)
                => polys[q][r] = C24_Joined(lists[r], Len(lists[r]))

\* ------------------------------------------------------------------------
\* Properties of ADMIN_PATTERN

\* The name begins, letter case apart, with one of the keywords.
C25_BeginsWithKeyword(s) ==
  /\ s # <<>>
  /\ \E k \in {"township", "county", "borough", "parish", "district",
               "division", "precinct", "unincorporated"} :
       ToLowerCase(s[1]) = k

\* The keyword the name begins with is a whole word: the name ends after it
\* or goes on with a character that is not a letter, a digit or "_".
C25_KeywordIsWholeWord(s) ==
  Len(s) = 1 \/ s[2] \in {" ", "-", "/"}

\* C25 as worded: a locality that is not blank is passed over as
\* administrative exactly when, ignoring case, it begins with one of the
\* keywords; otherwise it is the label (locality-first revision).
C25_AsWorded ==
  (Done_52 /\ ~BlankField(geo.locality)) =>
    (Returned(Trim(ValueOf(geo.locality)))
       <=> ~C25_BeginsWithKeyword(Trim(ValueOf(geo.locality))))

\* C25 amended: it is passed over exactly when it begins with one of the
\* keywords as a whole word; a name that goes on after the keyword without
\* a break, or holds the keyword later, is the label.
C25_WholeWordPrefix ==
  (Done_52 /\ ~BlankField(geo.locality)) =>
    (Returned(Trim(ValueOf(geo.locality)))
       <=> ~( /\ C25_BeginsWithKeyword(Trim(ValueOf(geo.locality)))
              /\ C25_KeywordIsWholeWord(Trim(ValueOf(geo.locality))) ))

\* C25 witness: the locality "Parishville" is the label, while a city is
\* at hand that would be taken if the locality were passed over.
C25_Witness ==
  /\ Done_52
  /\ geo.locality = Some(Parishville)
  /\ geo.city = Some(PaddedColumbus)
  /\ Returned(Parishville)

\* ------------------------------------------------------------------------
\* More properties of proficiencyToFraction

\* |n/d - (1-p)| in units of 1 / (d * proficiency.d).
C26_ScaledDistance(n, d) ==
  LET below == proficiency.d - proficiency.n
  IN  IF n * proficiency.d >= below * d
      THEN n * proficiency.d - below * d
      ELSE below * d - n * proficiency.d

\* C26: no fraction n/d with d in {4, 5, 10} and 1 <= n <= d - 1 is strictly
\* closer to 1 - p than the returned one, and the returned numerator differs
\* from the rounded one only when the denominator is 10.
C26_NearestValidFraction ==
  FractionDone =>
    /\ \A d \in {4, 5, 10} : \A n \in 1 .. d - 1 :
         ~( C26_ScaledDistance(n, d) * fraction.denominator
              < C26_ScaledDistance(fraction.numerator, fraction.denominator)
                  * d )
    /\ fraction.numerator # C2_Rounded(fraction.denominator)
         => fraction.denominator = 10

\* C26 witness: for p = 127/128 every denominator rounds to 0; the clamp
\* turned 0/10 into 1/10, the valid fraction nearest to 1/128.
C26_Witness ==
  /\ FractionDone
  /\ proficiency.n * 128 = 127 * proficiency.d
  /\ C2_Rounded(10) = 0
  /\ fraction = [numerator |-> 1, denominator |-> 10]

\* ------------------------------------------------------------------------
\* Whitespace around the label

\* C27: a label returned by either revision of extractLocationLabel neither
\* begins nor ends with whitespace, whichever field or entry it comes from.
C27_LabelTrimmed ==
  (LabelDone /\ label.kind = "return" /\ label.value # <<>>) =>
    /\ label.value[1] \notin {" "}
    /\ label.value[Len(label.value)] \notin {" "}

\* ------------------------------------------------------------------------
\* Properties of buildExploreHref

HrefDone == pc = "hrefDone"

\* The places of the parameter names in the result: each is followed by "=".
C21_NamePlaces == {i \in 1 .. Len(href) - 1 : href[i + 1] = "="}

C21_Lists(name) == \E i \in C21_NamePlaces : href[i] = name

\* The place of a name in the order state, lat, lon, city.
C21_Rank(name) ==
  CASE name = "state" -> 1
    [] name = "lat" -> 2
    [] name = "lon" -> 3
    [] name = "city" -> 4
    [] OTHER -> 0

\* Both coordinates are given.
C21_BothGiven == hrefArgs.lat # <<>> /\ hrefArgs.lon # <<>>

\* A parameter is set: a state or a city that is not empty, or both
\* coordinates.
C21_AnySet ==
  \/ hrefArgs.state \notin {<<>>, <<<<>>>>}
  \/ hrefArgs.city \notin {<<>>, <<<<>>>>}
  \/ C21_BothGiven

\* C21: lat and lon are in the query string exactly when both are given,
\* 0 included; the result is the bare "/explore.html" exactly when no
\* parameter is set; the parameters come in the order state, lat, lon, city.
C21_ExploreHref ==
  HrefDone =>
    /\ C21_Lists("lat") <=> C21_BothGiven
    /\ C21_Lists("lon") <=> C21_BothGiven
    /\ (href = <<"/explore.html">>) <=> ~C21_AnySet
    /\ (\E i \in 1 .. Len(href) : href[i] = "?") <=> C21_AnySet
    /\ Len(href) >= 1 /\ href[1] = "/explore.html"
    /\ \A i, j \in C21_NamePlaces :
         /\ C21_Rank(href[i]) > 0
         /\ i < j => C21_Rank(href[i]) < C21_Rank(href[j])
    /\ hrefArgs = [state |-> <<<<"OH">>>>, lat |-> <<[n |-> 399, d |-> 10]>>,
                   lon |-> <<[n |-> -414, d |-> 5]>>,
                   city |-> <<<<"Canal Winchester">>>>]
         => href = <<"/explore.html", "?", "state", "=", "OH", "&",
                     "lat", "=", "39.9", "&", "lon", "=", "-82.8", "&",
                     "city", "=", "Canal+Winchester">>

\* C21 witness: with the latitude 0 and a longitude both are listed, between
\* the state and the city.
C21_Witness ==
  /\ HrefDone
  /\ hrefArgs.lat = <<[n |-> 0, d |-> 1]>>
  /\ href = <<"/explore.html", "?", "state", "=", "OH", "&",
              "lat", "=", "0", "&", "lon", "=", "-82.8", "&",
              "city", "=", "Canal+Winchester">>

\* ------------------------------------------------------------------------
\* Properties of the worker

IsGetRoot(request) == request.method = "GET" /\ request.pathname = "/"

\* The requests for GET / received so far.
GetRoots == {i \in 1 .. Len(requests) : IsGetRoot(requests[i].request)}

\* C22: whatever the number and the interleaving of the requests, naep.json
\* is fetched from ASSETS at most once and read at most once: once as soon
\* as the first GET / is received, and never again.
C22_LoadedAtMostOnce ==
  /\ fetches <= 1
  /\ parses <= fetches
  /\ fetches = 1 <=> GetRoots # {}
  /\ NAEP_DATA_PROMISE.state = "null" <=> GetRoots = {}

\* C22 witness: two requests for GET / wait for the one load in flight.
C22_Witness ==
  /\ Len(requests) = 2
  /\ \A i \in 1 .. 2 :
       IsGetRoot(requests[i].request) /\ requests[i].stage = "awaiting"
  /\ NAEP_DATA_PROMISE.state = "fetching"
  /\ fetches = 1

\* The entries of the dataset's states whose key is the request's region
\* code, for a request whose country is "US".
C23_StateEntries(request) ==
  IF request.cf = <<>> \/ asset.states = <<>> THEN {}
  ELSE {k \in 1 .. Len(asset.states[1]) :
          /\ request.cf[1].country = <<<<"U", "S">>>>
          /\ request.cf[1].regionCode = <<asset.states[1][k].key>>}

\* The home page that shows a value under a label.
C23_Shows(response, value, isNational) ==
  /\ response.page = "homeHTML"
  /\ response.ratio = parseRatio(value)
  /\ (response.scopeLabel = <<<<"U.S.">>>>) <=> isNational

\* C23: a GET / answered from the loaded dataset shows the state's value
\* exactly when cf.country is "US" and cf.regionCode is a key of the
\* dataset's states, and the national value in every other case.
C23_StateOrNational ==
  \A i \in GetRoots :
    (requests[i].stage = "responded" /\ NAEP_DATA_PROMISE.state = "resolved")
      => IF C23_StateEntries(requests[i].request) # {}
         THEN \E k \in C23_StateEntries(requests[i].request) :
                C23_Shows(requests[i].response, asset.states[1][k].value, FALSE)
         ELSE C23_Shows(requests[i].response, asset.national[1], TRUE)

\* C23 witness: the request from US / OH was shown Ohio's 7 out of 10, the
\* request from IN / GA the national 4 out of 10, though GA is a key.
C23_Witness ==
  /\ Len(requests) = 2
  /\ requests[1].request.cf = Cf(Some(<<"U", "S">>), Some(<<"O", "H">>))
  /\ requests[1].response =
       Home([numerator |-> 7, denominator |-> 10], <<"Ohio">>)
  /\ requests[2].request.cf = Cf(Some(<<"I", "N">>), Some(<<"G", "A">>))
  /\ requests[2].response =
       Home([numerator |-> 4, denominator |-> 10], <<"U.S.">>)
  /\ \E k \in 1 .. Len(asset.states[1]) : asset.states[1][k].key = <<"G", "A">>

LoadFailed == NAEP_DATA_PROMISE.state = "rejected"

\* C28: a failed load is cached.  Once the promise is rejected it stays
\* rejected, naep.json is never fetched or read again, and every GET / that
\* is answered gets the Temporary Error page.
C28_FailureIsCached ==
  /\ [](LoadFailed =>
          /\ fetches = 1
          /\ \A i \in GetRoots :
               requests[i].stage = "responded"
                 => requests[i].response = TemporaryError)
  /\ [][LoadFailed =>
          /\ LoadFailed'
          /\ fetches' = fetches
          /\ parses' = parses]_vars

\* C28 witness: with naep.json not served, two requests for GET / were both
\* answered with the Temporary Error page after a single fetch.
C28_Witness ==
  /\ LoadFailed
  /\ ~asset.ok
  /\ fetches = 1
  /\ Len(requests) = 2
  /\ \A i \in 1 .. 2 :
       /\ IsGetRoot(requests[i].request)
       /\ requests[i].stage = "responded"
       /\ requests[i].response = TemporaryError

\* C29: a handler is either waiting for the dataset (GET / only) or has
\* returned a Response.  A method other than GET gets 405 on any path,
\* GET /investor 200, GET of any other path than / 404, GET / 200, which is
\* the Temporary Error page when the load failed; every response carries
\* the base security headers.
C29_AlwaysAResponse ==
  \A i \in 1 .. Len(requests) :
    LET request == requests[i].request
        response == requests[i].response
    IN  /\ requests[i].stage \in {"awaiting", "responded"}
        /\ requests[i].stage = "awaiting" => IsGetRoot(request)
        /\ requests[i].stage = "responded" =>
             /\ BaseHeaders \subseteq response.headers
             /\ request.method # "GET" =>
                  response.status = 405 /\ response.page = "Method Not Allowed"
             /\ (request.method = "GET" /\ request.pathname = "/investor") =>
                  response.status = 200 /\ response.page = "investorHTML"
             /\ (request.method = "GET"
                   /\ request.pathname \notin {"/", "/investor"}) =>
                  response.status = 404 /\ response.page = "notFoundHTML"
             /\ IsGetRoot(request) =>
                  /\ response.status = 200
                  /\ LoadFailed => response.page = "Temporary Error"

\* C29 witness: a POST to /investor was refused with 405, and a GET / whose
\* load failed was answered 200 with the Temporary Error page.
C29_Witness ==
  /\ Len(requests) = 2
  /\ requests[1].request.method # "GET"
  /\ requests[1].request.pathname = "/investor"
  /\ requests[1].response.status = 405
  /\ IsGetRoot(requests[2].request)
  /\ requests[2].response = TemporaryError
  /\ BaseHeaders \subseteq requests[2].response.headers

\* The record chooseNaepRecord takes for a request.
C30_Chosen(request) ==
  IF C23_StateEntries(request) # {}
  THEN asset.states[1][CHOOSE k \in C23_StateEntries(request) : TRUE].value
  ELSE asset.national[1]

\* C30: for every dataset that passes validateData, the numerator and the
\* denominator rendered for GET / are the N and the M of the chosen
\* record's text "N out of M".
C30_RenderedRatioIsText ==
  \A i \in GetRoots :
    (requests[i].stage = "responded" /\ NAEP_DATA_PROMISE.state = "resolved")
      => LET text == ValueOf(C30_Chosen(requests[i].request).text)
         IN  requests[i].response.ratio =
               Some([numerator |-> Number(text[1]),
                     denominator |-> Number(text[3])])

====
